---- MODULE Spec2Model ----
(***************************************************************************)
(* The guest address-space allocator of touchHLE (src/src/mem/allocator.rs) *)
(* as a state machine: Chunk, Allocator::new, reserve, alloc, split_chunk,  *)
(* align_size, find_allocated_chunk, free and try_combine_with_neighbour.   *)
(*                                                                         *)
(* Addresses and sizes are u32 in the source.  The model keeps the width   *)
(* as AddrBits and does every u32 addition the source does modulo          *)
(* 2^AddrBits.  An overflowing u32 addition panics when the crate is built *)
(* with overflow checks (the debug profile) and wraps when it is built     *)
(* without them (the release profile): overflow_checks is chosen once, at  *)
(* Init, and both builds are explored.                                     *)
(***************************************************************************)
EXTENDS Integers, Sequences, FiniteSets, TLC

\* Width of VAddr / GuestUSize in the model (u32 in the source).
AddrBits == 8
AddrSpace == 2^AddrBits

\* Longest sequence of allocator calls explored.
MaxOps == 4
MaxOpsLong == MaxOps + 2
MaxOpsAllocFree == MaxOps + 4

\* Mem::NULL_PAGE_SIZE, Mem::MAIN_THREAD_STACK_SIZE, scaled to the model's width
\* (0x1000 and 1 MiB in a 2^32 space); the stack ends at the top of the space.
NULL_PAGE_SIZE == 16
MAIN_THREAD_STACK_SIZE == 32
MAIN_THREAD_STACK_LOW_END == AddrSpace - MAIN_THREAD_STACK_SIZE

\* align_size: minimum allocation size and alignment.
ALIGNMENT == 16

\* Marks a value that was never produced because the computation panicked.
PANIC == 0 - 1

VARIABLES
    unused_chunks,     \* Allocator.unused_chunks: Vec<Chunk>
    heap_used_chunks,  \* Allocator.heap_used_chunks: HashMap<VAddr, Chunk>
    overflow_checks,   \* TRUE: u32 overflow panics; FALSE: it wraps
    fatal,             \* the last call panicked; the process is gone
    last,              \* the last call: operation, arguments, result
    nOps,              \* number of calls made
    granted,           \* base -> size granted, for alloc results not yet freed
    freed,             \* bases freed and not handed out again since
    pre_unused,        \* unused_chunks as the last call found it
    pre_used,          \* heap_used_chunks as the last call found it
    prev,              \* the call before the last one
    prev_unused,       \* unused_chunks as the call before the last found it
    added,             \* the chunks of unused_chunks, oldest insertion first
    handed,            \* base -> "alloc" / "reserve": how it was last handed out
    foreign_free,      \* free was given a base never handed out
    tri,               \* the last trisect_by evaluated on its own
    comb,              \* the last try_combine_with_neighbour called on its own
    max_ops            \* number of calls this run may make

vars == <<unused_chunks, heap_used_chunks, overflow_checks, fatal, last, nOps,
          granted, freed, pre_unused, pre_used, prev, handed, foreign_free,
          tri, max_ops, prev_unused, added, comb>>

----------------------------------------------------------------------------
\* u32 arithmetic

Overflows(x) == x < 0 \/ x >= AddrSpace
Wrap(x) == x % AddrSpace
Min(a, b) == IF a <= b THEN a ELSE b
Max(a, b) == IF a >= b THEN a ELSE b

----------------------------------------------------------------------------
\* Chunk

NoChunk == [base |-> PANIC, size |-> PANIC]

\* A plausible slip: the size is stored without the NonZeroU32 check.
ChunkNewUnchecked(base, size) == [base |-> base, size |-> size]

\* Chunk::new: NonZeroU32::new(size).unwrap() panics on size 0.
ChunkNew(base, size) ==
    IF size = 0 THEN NoChunk ELSE [base |-> base, size |-> size]

\* Chunk::last_byte: self.base + (self.size.get() - 1), a u32 addition.
LastByteOverflows(c) == Overflows(c.base + (c.size - 1))
LastByte(c) == Wrap(c.base + (c.size - 1))

\* Chunk::contains: "yes", "no", or "panic" when last_byte() overflows under
\* overflow checks.  && short-circuits: last_byte() is evaluated only when
\* self.base <= addr.
Contains(self, addr, checked) ==
    IF ~(self.base <= addr) THEN "no"
    ELSE IF checked /\ LastByteOverflows(self) THEN "panic"
    ELSE IF addr <= LastByte(self) THEN "yes" ELSE "no"

\* Chunk::trisect_by: tag "none" (None), "some" (Some((left, right)), each an
\* Option given as a sequence of length 0 or 1) or "panic".
TrisectBy(self, middle, checked) ==
    LET c1 == Contains(self, middle.base, checked) IN
    IF c1 = "panic" THEN [tag |-> "panic", left |-> <<>>, right |-> <<>>]
    ELSE IF c1 = "no" THEN [tag |-> "none", left |-> <<>>, right |-> <<>>]
    ELSE IF checked /\ LastByteOverflows(middle)
         THEN [tag |-> "panic", left |-> <<>>, right |-> <<>>]
    ELSE LET mlast == LastByte(middle)
             c2 == Contains(self, mlast, checked)
         IN
         IF c2 = "panic" THEN [tag |-> "panic", left |-> <<>>, right |-> <<>>]
         ELSE IF c2 = "no" THEN [tag |-> "none", left |-> <<>>, right |-> <<>>]
         ELSE LET lsize == middle.base - self.base
                  rsize == LastByte(self) - mlast
              IN [tag |-> "some",
                  left |-> IF lsize = 0 THEN <<>>
                           ELSE <<ChunkNew(self.base, lsize)>>,
                  right |-> IF rsize = 0 THEN <<>>
                            ELSE <<ChunkNew(mlast + 1, rsize)>>]

----------------------------------------------------------------------------
\* Vec and HashMap operations the allocator uses

\* Vec::remove(i): order-preserving.
RemoveAt(s, i) == SubSeq(s, 1, i - 1) \o SubSeq(s, i + 1, Len(s))

\* Vec::swap_remove(i): the last element takes the place of the removed one.
SwapRemove(s, i) ==
    IF i = Len(s) THEN SubSeq(s, 1, Len(s) - 1)
    ELSE [k \in 1..(Len(s) - 1) |-> IF k = i THEN s[Len(s)] ELSE s[k]]

\* HashMap::insert(key, value): an existing entry is replaced.
MapInsert(m, k, v) == [x \in (DOMAIN m) \cup {k} |-> IF x = k THEN v ELSE m[x]]

\* HashMap::remove(key)
MapRemove(m, k) == [x \in (DOMAIN m) \ {k} |-> m[x]]

----------------------------------------------------------------------------
\* Outcome of a call: the collections as the call left them, the value
\* returned, and whether the call panicked.

Returned(unused, used, ret) ==
    [unused |-> unused, used |-> used, ret |-> ret, fatal |-> FALSE]
Panicked(unused, used) ==
    [unused |-> unused, used |-> used, ret |-> PANIC, fatal |-> TRUE]

----------------------------------------------------------------------------
\* Allocator::new

\* A plausible slip: the free chunk starts at 0 instead of after the null page.
AllocatorNewRestFromZero ==
    LET null_page == ChunkNew(0, NULL_PAGE_SIZE)
        main_thread_stack ==
            ChunkNew(MAIN_THREAD_STACK_LOW_END, MAIN_THREAD_STACK_SIZE)
        rest == ChunkNew(0, MAIN_THREAD_STACK_LOW_END)
    IN [unused |-> <<rest>>,
        used |-> MapInsert(MapInsert(<<>>, null_page.base, null_page),
                           main_thread_stack.base, main_thread_stack)]

AllocatorNew ==
    LET null_page == ChunkNew(0, NULL_PAGE_SIZE)
        main_thread_stack ==
            ChunkNew(MAIN_THREAD_STACK_LOW_END, MAIN_THREAD_STACK_SIZE)
        rest == ChunkNew(NULL_PAGE_SIZE,
                         MAIN_THREAD_STACK_LOW_END - NULL_PAGE_SIZE)
    IN [unused |-> <<rest>>,
        used |-> MapInsert(MapInsert(<<>>, null_page.base, null_page),
                           main_thread_stack.base, main_thread_stack)]

----------------------------------------------------------------------------
\* Allocator::reserve, applied to Chunk::new(base, size)

RECURSIVE ReserveFrom(_, _, _, _, _)
ReserveFrom(unused, used, chunk, i, checked) ==
    IF i > Len(unused) THEN Panicked(unused, used)
    ELSE LET t == TrisectBy(unused[i], chunk, checked) IN
         IF t.tag = "panic" THEN Panicked(unused, used)
         ELSE IF t.tag = "none"
              THEN ReserveFrom(unused, used, chunk, i + 1, checked)
         ELSE Returned(RemoveAt(unused, i) \o t.left \o t.right,
                       MapInsert(used, chunk.base, chunk), 0)

reserve(unused, used, base, size, checked) ==
    LET chunk == ChunkNew(base, size) IN
    IF chunk = NoChunk THEN Panicked(unused, used)
    ELSE ReserveFrom(unused, used, chunk, 1, checked)

----------------------------------------------------------------------------
\* Allocator::align_size

\* A plausible slip: the size is rounded down to the alignment, not up.
AlignSizeRoundsDown(size, checked) ==
    LET sz == Max(size, ALIGNMENT) IN sz - (sz % ALIGNMENT)

\* A sizing that applies the minimum and forgets to round up.
AlignSizeKeepsSize(size, checked) == Max(size, ALIGNMENT)

\* size.max(16), then size + 16 - (size % 16) when size is no multiple of 16.
\* The u32 addition size + 16 is done first: under overflow checks it panics
\* (PANIC), without them it wraps.
AlignSize(size, checked) ==
    LET sz == Max(size, ALIGNMENT) IN
    IF sz % ALIGNMENT # 0
    THEN IF Overflows(sz + ALIGNMENT)
         THEN IF checked THEN PANIC
              ELSE Wrap(Wrap(sz + ALIGNMENT) - (sz % ALIGNMENT))
         ELSE (sz + ALIGNMENT) - (sz % ALIGNMENT)
    ELSE sz

----------------------------------------------------------------------------
\* Allocator::alloc and Allocator::split_chunk

\* The scan of alloc, from index i down to 1: perfect is the index of the
\* first chunk met whose size equals the wanted size (the scan stops there),
\* big is <<idx, size>> of the big-enough candidate (<<>> for None), which
\* is replaced only by a strictly smaller chunk.
RECURSIVE ScanFrom(_, _, _, _)
ScanFrom(unused, size, i, big) ==
    IF i = 0 THEN [perfect |-> 0, big |-> big]
    ELSE IF unused[i].size = size THEN [perfect |-> i, big |-> big]
    ELSE IF unused[i].size > size /\ (big = <<>> \/ big[2] > unused[i].size)
         THEN ScanFrom(unused, size, i - 1, <<i, unused[i].size>>)
    ELSE ScanFrom(unused, size, i - 1, big)

\* A first-fit scan: the first chunk met from the end that is large enough.
ExistingChunkFirstFit(unused, size) ==
    LET fits == { i \in DOMAIN unused : unused[i].size >= size } IN
    IF fits = {} THEN 0
    ELSE CHOOSE i \in fits : \A j \in fits : j <= i

\* A scan that replaces its candidate by one of equal size too, so that of
\* several smallest larger chunks the one at the lowest index is taken.
ExistingChunkLowestTie(unused, size) ==
    LET exact == { i \in DOMAIN unused : unused[i].size = size }
        larger == { i \in DOMAIN unused : unused[i].size > size }
        tight == { i \in larger :
                     \A j \in larger : unused[i].size <= unused[j].size }
    IN IF exact # {} THEN CHOOSE i \in exact : \A j \in exact : j <= i
       ELSE IF tight # {} THEN CHOOSE i \in tight : \A j \in tight : i <= j
       ELSE 0

\* Index of the chunk alloc takes out of unused_chunks, 0 when it finds none.
ExistingChunkIdx(unused, size) ==
    LET r == ScanFrom(unused, size, Len(unused), <<>>) IN
    IF r.perfect # 0 THEN r.perfect
    ELSE IF r.big # <<>> THEN r.big[1]
    ELSE 0

\* A plausible slip: the rump is not given back to the free list.
SplitChunkDropsRump(unused, used, size, existing_chunk, checked) ==
    LET alloc_chunk == ChunkNew(existing_chunk.base, size) IN
    IF alloc_chunk = NoChunk THEN Panicked(unused, used)
    ELSE Returned(unused, MapInsert(used, alloc_chunk.base, alloc_chunk),
                  alloc_chunk.base)

\* split_chunk, called with existing_chunk already removed from unused.
SplitChunk(unused, used, size, existing_chunk, checked) ==
    IF size < existing_chunk.size
    THEN LET alloc_chunk == ChunkNew(existing_chunk.base, size)
             rbase == existing_chunk.base + size
             rump == ChunkNew(Wrap(rbase), existing_chunk.size - size)
         IN
         IF alloc_chunk = NoChunk THEN Panicked(unused, used)
         ELSE IF checked /\ Overflows(rbase) THEN Panicked(unused, used)
         ELSE IF rump = NoChunk THEN Panicked(unused, used)
         ELSE Returned(Append(unused, rump),
                       MapInsert(used, alloc_chunk.base, alloc_chunk),
                       alloc_chunk.base)
    ELSE IF size # existing_chunk.size THEN Panicked(unused, used)
    ELSE Returned(unused,
                  MapInsert(used, existing_chunk.base, existing_chunk),
                  existing_chunk.base)

\* An alloc that returns a null address when no chunk is large enough, as
\* malloc would, instead of panicking.
AllocReturnsNullWhenFull(unused, used, requested, checked) ==
    LET size == AlignSize(requested, checked) IN
    IF size = PANIC THEN Panicked(unused, used)
    ELSE LET idx == ExistingChunkIdx(unused, size) IN
         IF idx = 0 THEN Returned(unused, used, 0)
         ELSE SplitChunk(RemoveAt(unused, idx), used, size, unused[idx],
                         checked)

alloc(unused, used, requested, checked) ==
    LET size == AlignSize(requested, checked) IN
    IF size = PANIC THEN Panicked(unused, used)
    ELSE LET idx == ExistingChunkIdx(unused, size) IN
         IF idx = 0 THEN Panicked(unused, used)
         ELSE SplitChunk(RemoveAt(unused, idx), used, size, unused[idx],
                         checked)

----------------------------------------------------------------------------
\* Allocator::find_allocated_chunk

\* A plausible slip: an unknown base yields a default chunk instead of a panic.
FindReturnsDefaultChunk(unused, used, base) ==
    IF base \notin DOMAIN used
    THEN Returned(unused, used, [base |-> base, size |-> ALIGNMENT])
    ELSE Returned(unused, used, used[base])

\* A lookup that takes the chunk out of the map, as HashMap::remove would.
FindRemovesChunk(unused, used, base) ==
    IF base \notin DOMAIN used THEN Panicked(unused, used)
    ELSE Returned(unused, MapRemove(used, base), used[base])

find_allocated_chunk(unused, used, base) ==
    IF base \notin DOMAIN used THEN Panicked(unused, used)
    ELSE Returned(unused, used, used[base])

----------------------------------------------------------------------------
\* Allocator::try_combine_with_neighbour and Allocator::free

\* A closure that looks for a neighbour on the right only.
IsNeighbourRightOnly(other_chunk, chunk, allow_left_grow, checked) ==
    IF checked /\ LastByteOverflows(chunk) THEN "panic"
    ELSE IF other_chunk.base = LastByte(chunk) + 1 THEN "yes" ELSE "no"

\* The closure given to position(): the comparisons are made in u64, so the
\* + 1 cannot wrap, but last_byte() itself is a u32 addition.  "panic" when
\* a last_byte() that is evaluated overflows under overflow checks.
IsNeighbour(other_chunk, chunk, allow_left_grow, checked) ==
    IF checked /\ LastByteOverflows(chunk) THEN "panic"
    ELSE IF other_chunk.base = LastByte(chunk) + 1 THEN "yes"
    ELSE IF ~allow_left_grow THEN "no"
    ELSE IF checked /\ LastByteOverflows(other_chunk) THEN "panic"
    ELSE IF chunk.base = LastByte(other_chunk) + 1 THEN "yes" ELSE "no"

\* A search that returns the last neighbour in the list instead of the first.
PositionOfLast(unused, chunk, allow_left_grow, i, checked) ==
    LET hits == { k \in i..Len(unused) :
                      IsNeighbour(unused[k], chunk, allow_left_grow, checked)
                          = "yes" }
    IN IF hits = {} THEN 0
       ELSE CHOOSE k \in hits : \A j \in hits : j <= k

\* Iterator::position: index of the first neighbour at or after i, 0 for
\* None, PANIC when the closure panicked.
RECURSIVE Position(_, _, _, _, _)
Position(unused, chunk, allow_left_grow, i, checked) ==
    IF i > Len(unused) THEN 0
    ELSE LET n == IsNeighbour(unused[i], chunk, allow_left_grow, checked) IN
         IF n = "panic" THEN PANIC
         ELSE IF n = "yes" THEN i
         ELSE Position(unused, chunk, allow_left_grow, i + 1, checked)

\* A merge that goes on to take a second neighbour of the combined chunk.
TryCombineWithBothNeighbours(unused, chunk, allow_left_grow, checked) ==
    LET idx == Position(unused, chunk, allow_left_grow, 1, checked) IN
    IF idx = PANIC
    THEN [unused |-> unused, chunk |-> chunk, combined |-> FALSE,
          panic |-> TRUE]
    ELSE IF idx = 0
    THEN [unused |-> unused, chunk |-> chunk, combined |-> FALSE,
          panic |-> FALSE]
    ELSE LET other_chunk == unused[idx]
             rest == SwapRemove(unused, idx)
             sum == chunk.size + other_chunk.size
             one == ChunkNew(Min(chunk.base, other_chunk.base), Wrap(sum))
             idx2 == IF one = NoChunk THEN PANIC
                     ELSE Position(rest, one, allow_left_grow, 1, checked)
         IN
         IF (checked /\ Overflows(sum)) \/ idx2 = PANIC
         THEN [unused |-> rest, chunk |-> chunk, combined |-> FALSE,
               panic |-> TRUE]
         ELSE IF idx2 = 0
         THEN [unused |-> rest, chunk |-> one, combined |-> TRUE,
               panic |-> FALSE]
         ELSE [unused |-> SwapRemove(rest, idx2),
               chunk |-> [base |-> Min(one.base, rest[idx2].base),
                          size |-> Wrap(one.size + rest[idx2].size)],
               combined |-> TRUE, panic |-> FALSE]

\* A merge that removes the neighbour but returns the chunk unchanged.
TryCombineDropsNeighbour(unused, chunk, allow_left_grow, checked) ==
    LET idx == Position(unused, chunk, allow_left_grow, 1, checked) IN
    IF idx = PANIC
    THEN [unused |-> unused, chunk |-> chunk, combined |-> FALSE,
          panic |-> TRUE]
    ELSE IF idx = 0
    THEN [unused |-> unused, chunk |-> chunk, combined |-> FALSE,
          panic |-> FALSE]
    ELSE [unused |-> SwapRemove(unused, idx), chunk |-> chunk,
          combined |-> TRUE, panic |-> FALSE]

\* try_combine_with_neighbour: the free list as it is left, the chunk
\* returned, the flag returned, and whether the call panicked.
TryCombineWithNeighbour(unused, chunk, allow_left_grow, checked) ==
    LET idx == Position(unused, chunk, allow_left_grow, 1, checked) IN
    IF idx = PANIC
    THEN [unused |-> unused, chunk |-> chunk, combined |-> FALSE,
          panic |-> TRUE]
    ELSE IF idx = 0
    THEN [unused |-> unused, chunk |-> chunk, combined |-> FALSE,
          panic |-> FALSE]
    ELSE LET other_chunk == unused[idx]
             rest == SwapRemove(unused, idx)
             sum == chunk.size + other_chunk.size
             combined == ChunkNew(Min(chunk.base, other_chunk.base), Wrap(sum))
         IN
         IF (checked /\ Overflows(sum)) \/ combined = NoChunk
         THEN [unused |-> rest, chunk |-> chunk, combined |-> FALSE,
               panic |-> TRUE]
         ELSE [unused |-> rest, chunk |-> combined, combined |-> TRUE,
               panic |-> FALSE]

\* free once the chunk has been found in heap_used_chunks.
FreeFound(unused, used, base, checked) ==
    LET chunk == used[base]
        size == chunk.size
        used1 == MapRemove(used, base)
        r == TryCombineWithNeighbour(unused, chunk, TRUE, checked)
    IN
    IF r.panic THEN Panicked(r.unused, used1)
    ELSE Returned(Append(r.unused, r.chunk), used1, size)

\* A plausible slip: an unknown base is ignored instead of being fatal.
FreeIgnoresUnknown(unused, used, base, checked) ==
    IF base \notin DOMAIN used THEN Returned(unused, used, 0)
    ELSE FreeFound(unused, used, base, checked)

free(unused, used, base, checked) ==
    IF base \notin DOMAIN used THEN Panicked(unused, used)
    ELSE FreeFound(unused, used, base, checked)

----------------------------------------------------------------------------
\* Arguments the calls are explored with

HeapSize == MAIN_THREAD_STACK_LOW_END - NULL_PAGE_SIZE

\* Requested sizes: granted 16 with and without rounding, the 100 -> 112 of
\* the allocator's usual small block, what the initial free chunk has left
\* after that block, the whole initial free chunk, and the largest u32.
AllocSizes == {10, ALIGNMENT, 100, HeapSize - 112, HeapSize - 8, AddrSpace - 1}

\* A base near the top of the heap from which a chunk can run past the end
\* of the address space.
HighBase == MAIN_THREAD_STACK_LOW_END - 24

\* Chunks given to reserve as <<base, size>>: at the low edge, inside and at
\* the high edge of the initial free chunk, the whole of it, one over the
\* null page, one across the seam reserve(32, 16); free(32) leaves, one of
\* size 0, and one whose last byte lies past the end of the address space.
ReserveArgs ==
    { <<NULL_PAGE_SIZE, ALIGNMENT>>,
      <<2 * ALIGNMENT, ALIGNMENT>>,
      <<MAIN_THREAD_STACK_LOW_END - ALIGNMENT, ALIGNMENT>>,
      <<NULL_PAGE_SIZE, HeapSize>>,
      <<NULL_PAGE_SIZE \div 2, ALIGNMENT>>,
      <<2 * ALIGNMENT + 8, ALIGNMENT>>,
      <<2 * ALIGNMENT, 0>>,
      <<HighBase, AddrSpace - HighBase + 2 * ALIGNMENT>> }

\* Bases given to free and find_allocated_chunk: every used base, every base
\* freed and not handed out again, and one address that was never a base.
CallBases == (DOMAIN heap_used_chunks) \cup freed \cup {NULL_PAGE_SIZE \div 2}

----------------------------------------------------------------------------
\* The state machine

Constructed ==
    /\ unused_chunks = AllocatorNew.unused
    /\ heap_used_chunks = AllocatorNew.used
    /\ overflow_checks \in BOOLEAN
    /\ fatal = FALSE
    /\ last = [op |-> "new", base |-> 0, size |-> 0, ret |-> 0, rbase |-> 0]
    /\ nOps = 0
    /\ granted = <<>>
    /\ freed = {}
    /\ pre_unused = AllocatorNew.unused
    /\ pre_used = AllocatorNew.used
    /\ prev = [op |-> "none", base |-> 0, size |-> 0, ret |-> 0, rbase |-> 0]
    /\ prev_unused = AllocatorNew.unused
    /\ added = AllocatorNew.unused
    /\ handed = <<>>
    /\ foreign_free = FALSE
    /\ comb = [chunk |-> NoChunk, allow_left_grow |-> FALSE,
               result |-> NoChunk, combined |-> FALSE]
    /\ tri = [self |-> NoChunk, middle |-> NoChunk, tag |-> "none",
              left |-> <<>>, right |-> <<>>]

Init == Constructed /\ max_ops = MaxOps

\* A longer run of the build without overflow checks.
InitLong == Constructed /\ overflow_checks = FALSE /\ max_ops = MaxOpsLong

\* Number of entries of s among its first n that equal c.
Occurrences(s, n, c) == Cardinality({ i \in 1..n : s[i] = c })

\* The entries of s at the indices in keep, from index i on, in order.
RECURSIVE Pick(_, _, _)
Pick(s, i, keep) ==
    IF i > Len(s) THEN <<>>
    ELSE (IF i \in keep THEN <<s[i]>> ELSE <<>>) \o Pick(s, i + 1, keep)

\* The free chunks in the order they were put into unused_chunks, after a
\* call that turned the Vec `old` into `new`: chunks the call took out leave
\* the order, chunks it pushed join at the end.  swap_remove changes the
\* positions in the Vec, not when a chunk was inserted.
InsertionOrder(order, old, new) ==
    LET stays == { i \in DOMAIN order :
                       Occurrences(order, i, order[i])
                           <= Occurrences(new, Len(new), order[i]) }
        pushed == { i \in DOMAIN new :
                        Occurrences(new, i, new[i])
                            > Occurrences(old, Len(old), new[i]) }
    IN Pick(order, 1, stays) \o Pick(new, 1, pushed)

\* What every call records: the collections as it found them and the call
\* made before it.
Recorded ==
    /\ pre_unused' = unused_chunks
    /\ pre_used' = heap_used_chunks
    /\ prev' = last
    /\ prev_unused' = pre_unused
    /\ added' = InsertionOrder(added, unused_chunks, unused_chunks')
    /\ UNCHANGED <<tri, max_ops>>

CanCall == ~fatal /\ nOps < max_ops

Reserve(base, size) ==
    LET r == reserve(unused_chunks, heap_used_chunks, base, size,
                     overflow_checks) IN
    /\ CanCall
    /\ unused_chunks' = r.unused
    /\ heap_used_chunks' = r.used
    /\ fatal' = r.fatal
    /\ last' = [op |-> "reserve", base |-> base, size |-> size,
                ret |-> r.ret, rbase |-> 0]
    /\ nOps' = nOps + 1
    /\ freed' = IF r.fatal THEN freed ELSE freed \ {base}
    /\ handed' = IF r.fatal THEN handed ELSE MapInsert(handed, base, "reserve")
    /\ Recorded
    /\ UNCHANGED <<overflow_checks, granted, foreign_free, comb>>

Alloc(size) ==
    LET r == alloc(unused_chunks, heap_used_chunks, size, overflow_checks) IN
    /\ CanCall
    /\ unused_chunks' = r.unused
    /\ heap_used_chunks' = r.used
    /\ fatal' = r.fatal
    /\ last' = [op |-> "alloc", base |-> 0, size |-> size, ret |-> r.ret,
                rbase |-> 0]
    /\ nOps' = nOps + 1
    /\ granted' = IF r.fatal \/ r.ret \in DOMAIN granted THEN granted
                  ELSE MapInsert(granted, r.ret,
                                 AlignSize(size, overflow_checks))
    /\ freed' = IF r.fatal THEN freed ELSE freed \ {r.ret}
    /\ handed' = IF r.fatal THEN handed ELSE MapInsert(handed, r.ret, "alloc")
    /\ Recorded
    /\ UNCHANGED <<overflow_checks, foreign_free, comb>>

FindAllocatedChunk(base) ==
    LET r == find_allocated_chunk(unused_chunks, heap_used_chunks, base) IN
    /\ CanCall
    /\ unused_chunks' = r.unused
    /\ heap_used_chunks' = r.used
    /\ fatal' = r.fatal
    /\ last' = [op |-> "find_allocated_chunk", base |-> base, size |-> 0,
                ret |-> IF r.fatal THEN PANIC ELSE r.ret.size,
                rbase |-> IF r.fatal THEN PANIC ELSE r.ret.base]
    /\ nOps' = nOps + 1
    /\ Recorded
    /\ UNCHANGED <<overflow_checks, granted, freed, handed, foreign_free,
                   comb>>

Free(base) ==
    LET r == free(unused_chunks, heap_used_chunks, base, overflow_checks) IN
    /\ CanCall
    /\ unused_chunks' = r.unused
    /\ heap_used_chunks' = r.used
    /\ fatal' = r.fatal
    /\ last' = [op |-> "free", base |-> base, size |-> 0, ret |-> r.ret,
                rbase |-> 0]
    /\ nOps' = nOps + 1
    /\ granted' = IF r.fatal THEN granted ELSE MapRemove(granted, base)
    /\ freed' = IF r.fatal THEN freed ELSE freed \cup {base}
    /\ foreign_free' = (foreign_free \/ base \notin DOMAIN handed)
    /\ Recorded
    /\ UNCHANGED <<overflow_checks, handed, comb>>

Next ==
    \/ \E a \in ReserveArgs : Reserve(a[1], a[2])
    \/ \E size \in AllocSizes : Alloc(size)
    \/ \E base \in CallBases : FindAllocatedChunk(base)
    \/ \E base \in CallBases : Free(base)

Spec == Init /\ [][Next]_vars

\* The calls of a long run: free is given the bases of used regions only.
NextLong ==
    \/ \E a \in ReserveArgs : Reserve(a[1], a[2])
    \/ \E size \in AllocSizes : Alloc(size)
    \/ \E base \in DOMAIN heap_used_chunks : Free(base)

SpecLong == InitLong /\ [][NextLong]_vars

\* align_size called on its own, for every size of the width.
AlignSizeCall(size) ==
    LET s == AlignSize(size, overflow_checks) IN
    /\ ~fatal
    /\ fatal' = (s = PANIC)
    /\ last' = [op |-> "align_size", base |-> 0, size |-> size, ret |-> s,
                rbase |-> 0]
    /\ UNCHANGED <<unused_chunks, heap_used_chunks, overflow_checks, nOps,
                   granted, freed, pre_unused, pre_used, prev, handed,
                   foreign_free, tri, max_ops, prev_unused, added, comb>>

NextAlign == \E size \in 0..(AddrSpace - 1) : AlignSizeCall(size)

SpecAlign == Init /\ [][NextAlign]_vars

\* Runs of alloc and free alone on a new allocator, without reserve.  The
\* sizes: granted 16 with and without rounding, the whole initial free chunk,
\* and the largest u32.
AllocFreeSizes == {10, ALIGNMENT, HeapSize - 8, AddrSpace - 1}

InitAllocFree == Constructed /\ max_ops = MaxOpsAllocFree

NextAllocFree ==
    \/ \E size \in AllocFreeSizes : Alloc(size)
    \/ \E base \in CallBases : Free(base)

SpecAllocFree == InitAllocFree /\ [][NextAllocFree]_vars

\* try_combine_with_neighbour called on its own, between alloc and free
\* calls.  It takes the neighbour out of unused_chunks and hands the combined
\* chunk to its caller.  The chunks given: 16 and 32 bytes at the start of the
\* heap and after the first 16 bytes, the main thread's stack, and a chunk
\* that runs past the end of the address space.
CombineChunks ==
    { ChunkNew(NULL_PAGE_SIZE, ALIGNMENT),
      ChunkNew(NULL_PAGE_SIZE, 2 * ALIGNMENT),
      ChunkNew(NULL_PAGE_SIZE + ALIGNMENT, ALIGNMENT),
      ChunkNew(MAIN_THREAD_STACK_LOW_END, MAIN_THREAD_STACK_SIZE),
      ChunkNew(HighBase, AddrSpace - HighBase + 2 * ALIGNMENT) }

TryCombineCall(chunk, allow_left_grow) ==
    LET r == TryCombineWithNeighbour(unused_chunks, chunk, allow_left_grow,
                                     overflow_checks) IN
    /\ CanCall
    /\ unused_chunks' = r.unused
    /\ fatal' = r.panic
    /\ comb' = [chunk |-> chunk, allow_left_grow |-> allow_left_grow,
                result |-> r.chunk, combined |-> r.combined]
    /\ last' = [op |-> "try_combine_with_neighbour", base |-> chunk.base,
                size |-> chunk.size, ret |-> 0, rbase |-> 0]
    /\ nOps' = nOps + 1
    /\ Recorded
    /\ UNCHANGED <<heap_used_chunks, overflow_checks, granted, freed, handed,
                   foreign_free>>

NextCombine ==
    \/ \E size \in AllocFreeSizes : Alloc(size)
    \/ \E base \in CallBases : Free(base)
    \/ \E chunk \in CombineChunks : \E allow_left_grow \in BOOLEAN :
           TryCombineCall(chunk, allow_left_grow)

SpecCombine == Init /\ [][NextCombine]_vars

\* Chunk::trisect_by evaluated on its own.  The chunks are those of the unit
\* test (bases 1..5, sizes 2 and 4), single bytes, and chunks of a size that
\* makes them run past the end of the address space.
TrisectBases == 1..5
TrisectSizes == {1, 2, 4, AddrSpace - 2}
TrisectChunks ==
    { ChunkNew(b, s) : b \in TrisectBases, s \in TrisectSizes }

TrisectCall(self, middle) ==
    LET t == TrisectBy(self, middle, overflow_checks) IN
    /\ ~fatal
    /\ fatal' = (t.tag = "panic")
    /\ tri' = [self |-> self, middle |-> middle, tag |-> t.tag,
               left |-> t.left, right |-> t.right]
    /\ last' = [op |-> "trisect_by", base |-> middle.base,
                size |-> middle.size, ret |-> 0, rbase |-> 0]
    /\ UNCHANGED <<unused_chunks, heap_used_chunks, overflow_checks, nOps,
                   granted, freed, pre_unused, pre_used, prev, handed,
                   foreign_free, max_ops, prev_unused, added, comb>>

NextTrisect ==
    \E self \in TrisectChunks : \E middle \in TrisectChunks :
        TrisectCall(self, middle)

SpecTrisect == Init /\ [][NextTrisect]_vars

----------------------------------------------------------------------------
\* Vocabulary of the properties

\* The bytes [base, base + size) of two regions meet.
Overlap(a, b) ==
    a.base <= b.base + b.size - 1 /\ b.base <= a.base + a.size - 1

\* The regions of the free list and of the used map, each with its place.
Tracked ==
    { <<"free", i, unused_chunks[i]>> : i \in DOMAIN unused_chunks }
    \cup { <<"used", k, heap_used_chunks[k]>> : k \in DOMAIN heap_used_chunks }

\* The granted size the sizing policy promises for a request: the least
\* multiple of 16 that is at least 16 and at least the request.
GrantedSizeFor(n) ==
    ((Max(n, ALIGNMENT) + ALIGNMENT - 1) \div ALIGNMENT) * ALIGNMENT

RECURSIVE SumSizes(_)
SumSizes(S) ==
    IF S = {} THEN 0
    ELSE LET t == CHOOSE x \in S : TRUE IN t[3].size + SumSizes(S \ {t})

----------------------------------------------------------------------------
\* C1: after construction and after any sequence of reserve, alloc and free
\* calls that did not end in a fatal failure, no two tracked regions overlap
\* (free/free, used/used, free/used).
NoTrackedRegionsOverlap ==
    ~fatal =>
        \A x \in Tracked : \A y \in Tracked :
            x # y => ~Overlap(x[3], y[3])

\* C2: after construction and after any sequence of calls, every address of
\* the space lies in exactly one tracked region, and the sizes of the
\* tracked regions sum to the size of the space.
TotalCoverage ==
    ~fatal =>
        /\ \A a \in 0..(AddrSpace - 1) :
              Cardinality({ x \in Tracked :
                  x[3].base <= a /\ a <= x[3].base + x[3].size - 1 }) = 1
        /\ SumSizes(Tracked) = AddrSpace

\* C3: a freshly constructed allocator has exactly two used regions, the
\* null page [0, NULL_PAGE_SIZE) and the main-thread stack, and exactly one
\* free region, from NULL_PAGE_SIZE to just below MAIN_THREAD_STACK_LOW_END.
FreshAllocatorPartition ==
    nOps = 0 =>
        /\ DOMAIN heap_used_chunks = {0, MAIN_THREAD_STACK_LOW_END}
        /\ Cardinality(DOMAIN heap_used_chunks) = 2
        /\ heap_used_chunks[0] = [base |-> 0, size |-> NULL_PAGE_SIZE]
        /\ heap_used_chunks[MAIN_THREAD_STACK_LOW_END] =
               [base |-> MAIN_THREAD_STACK_LOW_END,
                size |-> MAIN_THREAD_STACK_SIZE]
        /\ Len(unused_chunks) = 1
        /\ unused_chunks[1].base = NULL_PAGE_SIZE
        /\ unused_chunks[1].base + unused_chunks[1].size
               = MAIN_THREAD_STACK_LOW_END

FreshAllocatorSeen ==
    nOps = 0 /\ last.op = "new" /\ Len(unused_chunks) = 1
    /\ Cardinality(DOMAIN heap_used_chunks) = 2

\* C4: for every requested size r of the width, align_size(r) returns
\* without failing a value s with s >= r, s >= 16 and s a multiple of 16.
AlignSizeContract ==
    last.op = "align_size" =>
        /\ last.ret # PANIC
        /\ last.ret >= last.size
        /\ last.ret >= ALIGNMENT
        /\ last.ret % ALIGNMENT = 0

\* C5: a region of size 0 is rejected by Chunk::new (the call that builds it
\* is fatal), and no region of size 0 is ever in the free list or the used
\* map.
NoZeroSizeRegion ==
    /\ \A x \in Tracked : x[3].size > 0
    /\ (last.op = "reserve" /\ last.size = 0) => fatal

ZeroSizeRejectedSeen ==
    last.op = "reserve" /\ last.size = 0 /\ fatal
    /\ unused_chunks = AllocatorNew.unused

\* C6: while a base b returned by alloc(n) has not been freed,
\* find_allocated_chunk(b) returns a region with base b and the size granted
\* by that alloc call.
GrantedSizeFound ==
    ~fatal =>
        \A b \in DOMAIN granted :
            LET r == find_allocated_chunk(unused_chunks, heap_used_chunks, b)
            IN ~r.fatal /\ r.ret.base = b /\ r.ret.size = granted[b]

\* C7: a successful alloc(n) with granted size s takes one free region F out
\* of the free list, inserts the used region (F.base, s), returns F.base, and
\* adds the rump (F.base + s, F.size - s) to the free list exactly when
\* F.size > s.  Bases are u32 addresses: F.base + s is the u32 sum.
AllocSplitsChosenRegion ==
    [][ (last'.op = "alloc" /\ ~fatal') =>
          LET s == GrantedSizeFor(last'.size) IN
          \E i \in DOMAIN unused_chunks :
              LET F == unused_chunks[i] IN
              /\ last'.ret = F.base
              /\ F.size >= s
              /\ DOMAIN heap_used_chunks' =
                     (DOMAIN heap_used_chunks) \cup {F.base}
              /\ heap_used_chunks'[F.base] = [base |-> F.base, size |-> s]
              /\ \A k \in (DOMAIN heap_used_chunks) \ {F.base} :
                     heap_used_chunks'[k] = heap_used_chunks[k]
              /\ unused_chunks' =
                     IF F.size > s
                     THEN Append(RemoveAt(unused_chunks, i),
                                 [base |-> (F.base + s) % AddrSpace,
                                  size |-> F.size - s])
                     ELSE RemoveAt(unused_chunks, i) ]_vars

AllocSplitSeen ==
    /\ last.op = "alloc" /\ ~fatal /\ last.size = 100
    /\ heap_used_chunks[last.ret].size = GrantedSizeFor(100)
    /\ unused_chunks[Len(unused_chunks)].base
           = last.ret + GrantedSizeFor(100)

\* C8: alloc(n) fails fatally if and only if no single free region has size
\* >= align_size(n), and a failing alloc leaves the free list and the used
\* map unchanged.
AllocFailsIffNoRoom ==
    [][ last'.op = "alloc" =>
          /\ fatal' <=> ~(\E i \in DOMAIN unused_chunks :
                            unused_chunks[i].size
                                >= GrantedSizeFor(last'.size))
          /\ fatal' => /\ unused_chunks' = unused_chunks
                       /\ heap_used_chunks' = heap_used_chunks ]_vars

\* C9: a successful free(base) removes the region keyed by base from the
\* used map, returns that region's own size, and afterwards every byte of
\* the freed region is covered by a region of the free list.
FreeReturnsRegionToFreeList ==
    [][ (last'.op = "free" /\ ~fatal') =>
          LET b == last'.base IN
          /\ b \in DOMAIN heap_used_chunks
          /\ DOMAIN heap_used_chunks' = (DOMAIN heap_used_chunks) \ {b}
          /\ last'.ret = heap_used_chunks[b].size
          /\ \A a \in heap_used_chunks[b].base ..
                      (heap_used_chunks[b].base
                           + heap_used_chunks[b].size - 1) :
                 \E i \in DOMAIN unused_chunks' :
                     /\ unused_chunks'[i].base <= a
                     /\ a <= unused_chunks'[i].base
                                 + unused_chunks'[i].size - 1 ]_vars

\* C10: free(base) is fatal whenever base is not a key of the used map, in
\* particular for a base already freed and not handed out again (such a base
\* is never a key), and the failing call leaves the free list and the used
\* map unchanged.
FreeOfUnknownBaseIsFatal ==
    [][ /\ (freed \cap DOMAIN heap_used_chunks = {})'
        /\ (last'.op = "free" /\ last'.base \notin DOMAIN heap_used_chunks)
               => /\ fatal'
                  /\ unused_chunks' = unused_chunks
                  /\ heap_used_chunks' = heap_used_chunks ]_vars

DoubleFreeSeen ==
    last.op = "free" /\ fatal /\ last.base \in freed

\* C11: find_allocated_chunk(base) is fatal whenever base is not the base of
\* a used region, in particular for an address returned by alloc, then freed
\* and not handed out again.
FindOfUnknownBaseIsFatal ==
    last.op = "find_allocated_chunk" =>
        /\ last.base \notin { pre_used[k].base : k \in DOMAIN pre_used }
               => fatal
        /\ last.base \in freed => fatal

FindAfterFreeSeen ==
    /\ last.op = "find_allocated_chunk" /\ fatal
    /\ last.base \in freed
    /\ last.base \in DOMAIN handed /\ handed[last.base] = "alloc"

\* The region a reserve call was given.
ReserveArg == [base |-> last.base, size |-> last.size]

\* Region r lies within region F: F holds r's base and r's last byte.
Inside(F, r) ==
    F.base <= r.base /\ r.base + r.size - 1 <= F.base + F.size - 1

\* The part of F before r and the part of F after r, each as a sequence of
\* length 0 (empty part) or 1.
PartBefore(F, r) ==
    IF r.base - F.base > 0
    THEN <<[base |-> F.base, size |-> r.base - F.base]>> ELSE <<>>
PartAfter(F, r) ==
    IF (F.base + F.size) - (r.base + r.size) > 0
    THEN <<[base |-> r.base + r.size,
            size |-> (F.base + F.size) - (r.base + r.size)]>>
    ELSE <<>>

\* C12: reserve(r) succeeds whenever one free region F contains r's base and
\* r's last byte: F is replaced in the free list by the non-empty parts of F
\* before and after r, r is inserted into the used map, and no other free or
\* used region changes.
ReserveInsideFreeRegion ==
    (/\ last.op = "reserve" /\ last.size > 0
     /\ \E i \in DOMAIN pre_unused : Inside(pre_unused[i], ReserveArg))
    => /\ ~fatal
       /\ \E i \in DOMAIN pre_unused :
             /\ Inside(pre_unused[i], ReserveArg)
             /\ unused_chunks =
                    RemoveAt(pre_unused, i)
                        \o PartBefore(pre_unused[i], ReserveArg)
                        \o PartAfter(pre_unused[i], ReserveArg)
       /\ DOMAIN heap_used_chunks = (DOMAIN pre_used) \cup {last.base}
       /\ heap_used_chunks[last.base] = ReserveArg
       /\ \A k \in DOMAIN pre_used : heap_used_chunks[k] = pre_used[k]

\* C13: reserve(r) is fatal whenever r overlaps a used region or is not
\* fully contained in a single free region, and the failing call leaves the
\* free list and the used map unchanged.
ReserveOutsideFreeRegionIsFatal ==
    (/\ last.op = "reserve" /\ last.size > 0
     /\ \/ \E k \in DOMAIN pre_used : Overlap(pre_used[k], ReserveArg)
        \/ ~(\E i \in DOMAIN pre_unused : Inside(pre_unused[i], ReserveArg)))
    => /\ fatal
       /\ unused_chunks = pre_unused
       /\ heap_used_chunks = pre_used

\* Region r starts in free region A and ends in free region B, and B begins
\* at the byte after A's last one.
Straddles(r, A, B) ==
    /\ A.base + A.size = B.base
    /\ A.base <= r.base /\ r.base <= A.base + A.size - 1
    /\ B.base <= r.base + r.size - 1
    /\ r.base + r.size - 1 <= B.base + B.size - 1

StraddlingReserve ==
    /\ last.op = "reserve" /\ last.size > 0
    /\ \E i \in DOMAIN pre_unused : \E j \in DOMAIN pre_unused :
          i # j /\ Straddles(ReserveArg, pre_unused[i], pre_unused[j])

\* C14: reserve(r) is fatal when r straddles the boundary between two
\* distinct, address-adjacent free regions, although every byte of r is free.
StraddlingReserveIsFatal ==
    StraddlingReserve => fatal /\ unused_chunks = pre_unused

\* C15: no operation ends in a partial state: a call that fails fatally
\* leaves the free list and the used map exactly as they were before it.
FatalFailureChangesNothing ==
    fatal => /\ unused_chunks = pre_unused
             /\ heap_used_chunks = pre_used

InNullPage(addr) == addr < NULL_PAGE_SIZE
InMainThreadStack(addr) ==
    MAIN_THREAD_STACK_LOW_END <= addr /\ addr < AddrSpace

\* C16: alloc never returns an address inside the null page or the
\* main-thread stack while free has only been applied to bases returned by
\* alloc or passed to reserve, and alloc(10) on a fresh allocator returns a
\* base outside both with a granted size of exactly 16.
AllocAvoidsNullPageAndStack ==
    /\ (last.op = "alloc" /\ ~fatal /\ ~foreign_free)
           => ~InNullPage(last.ret) /\ ~InMainThreadStack(last.ret)
    /\ (last.op = "alloc" /\ prev.op = "new" /\ last.size = 10)
           => /\ ~fatal
              /\ ~InNullPage(last.ret) /\ ~InMainThreadStack(last.ret)
              /\ heap_used_chunks[last.ret].size = 16

InFreeList(unused, c) == \E i \in DOMAIN unused : unused[i] = c

\* Regions a and b touch: one begins at the byte after the other's last one.
Adjacent(a, b) == a.base + a.size = b.base \/ b.base + b.size = a.base

FromAlloc(base) == base \in DOMAIN handed /\ handed[base] = "alloc"

\* The last two calls were successful frees of two address-adjacent regions
\* that alloc had handed out; the first freed one, then the second.
FirstFreed == [base |-> prev.base, size |-> prev.ret]
SecondFreed == [base |-> last.base, size |-> last.ret]
TwoAdjacentFrees ==
    /\ prev.op = "free" /\ last.op = "free" /\ ~fatal
    /\ FromAlloc(prev.base) /\ FromAlloc(last.base)
    /\ Adjacent(FirstFreed, SecondFreed)
MergedFreed ==
    [base |-> Min(FirstFreed.base, SecondFreed.base),
     size |-> FirstFreed.size + SecondFreed.size]

\* C17 as stated: when two address-adjacent regions obtained from alloc are
\* freed one after the other, the first freed region is a separate free-list
\* entry after its free, and after the second free the two have merged into
\* one free region whose size is the sum of their sizes.
AdjacentFreesMerge ==
    TwoAdjacentFrees =>
        /\ InFreeList(pre_unused, FirstFreed)
        /\ InFreeList(unused_chunks, MergedFreed)

\* No free region other than `except` touches region c.
NoOtherFreeNeighbour(unused, c, except) ==
    \A i \in DOMAIN unused : unused[i] # except => ~Adjacent(unused[i], c)

\* C17 amended: the same holds when no other free region touches either of
\* the two at the time it is freed; free merges with one neighbour only, the
\* first one found in the free list.
AdjacentFreesMergeWhenNoOtherNeighbour ==
    [][(/\ last.op = "free" /\ ~fatal
        /\ last'.op = "free" /\ ~fatal'
        /\ FromAlloc(last.base) /\ FromAlloc(last'.base)
        /\ Adjacent([base |-> last.base, size |-> last.ret],
                    [base |-> last'.base, size |-> last'.ret])
        /\ NoOtherFreeNeighbour(pre_unused,
               [base |-> last.base, size |-> last.ret], NoChunk)
        /\ NoOtherFreeNeighbour(unused_chunks,
               [base |-> last'.base, size |-> last'.ret],
               [base |-> last.base, size |-> last.ret]))
       => /\ unused_chunks =
                Append(pre_unused, [base |-> last.base, size |-> last.ret])
          /\ InFreeList(unused_chunks', 
                [base |-> Min(last.base, last'.base),
                 size |-> last.ret + last'.ret])
          /\ Len(unused_chunks') = Len(unused_chunks)]_vars

AdjacentFreesMergedSeen ==
    /\ TwoAdjacentFrees
    /\ NoOtherFreeNeighbour(pre_unused, SecondFreed, FirstFreed)
    /\ InFreeList(pre_unused, FirstFreed)
    /\ InFreeList(unused_chunks, MergedFreed)
    /\ ~InFreeList(unused_chunks, FirstFreed)

\* Total capacity of a free list: the sum of its regions' sizes.
RECURSIVE Capacity(_)
Capacity(unused) ==
    IF unused = <<>> THEN 0
    ELSE Head(unused).size + Capacity(Tail(unused))

\* C18 as stated: for alloc(16), free(base), alloc(16), the total free
\* capacity after the second alloc equals the capacity before the first.
CapacityAfterReallocEqualsBefore ==
    [][(/\ prev.op = "alloc" /\ prev.size = 16
        /\ last.op = "free" /\ last.base = prev.ret /\ ~fatal
        /\ last'.op = "alloc" /\ last'.size = 16 /\ ~fatal')
       => Capacity(unused_chunks') = Capacity(prev_unused)]_vars

\* C18 amended: the capacity after the second alloc equals the capacity
\* after the first alloc, which is the capacity before the first alloc less
\* the 16 bytes granted, whether or not the same base is returned.
CapacityAfterReallocEqualsAfterFirst ==
    [][(/\ prev.op = "alloc" /\ prev.size = 16
        /\ last.op = "free" /\ last.base = prev.ret /\ ~fatal
        /\ last'.op = "alloc" /\ last'.size = 16 /\ ~fatal')
       => /\ Capacity(unused_chunks') = Capacity(pre_unused)
          /\ Capacity(unused_chunks') = Capacity(prev_unused) - 16]_vars

\* The third call of a run: an alloc, the free of its 16 bytes, alloc(16).
ReallocSeen ==
    /\ nOps = 3
    /\ prev.op = "free" /\ FromAlloc(prev.base) /\ prev.ret = 16
    /\ last.op = "alloc" /\ last.size = 16 /\ ~fatal
    /\ Capacity(unused_chunks) = Capacity(prev_unused)
    /\ Capacity(unused_chunks) = HeapSize - 16

\* The last byte of a chunk as a number, not reduced to the address width.
TrueLastByte(c) == c.base + c.size - 1

\* C19: trisect_by(middle) returns None unless middle's base and middle's
\* last byte both lie within self (bounds inclusive); otherwise it returns
\* (left, right): left is the part of self before middle (None when middle
\* starts at self's base), right the part after middle (None when middle
\* ends at self's last byte), and left, middle, right are contiguous,
\* disjoint and together equal self.
TrisectByContract ==
    last.op = "trisect_by" =>
        LET s == tri.self
            m == tri.middle
        IN
        IF /\ s.base <= m.base /\ m.base <= TrueLastByte(s)
           /\ s.base <= TrueLastByte(m) /\ TrueLastByte(m) <= TrueLastByte(s)
        THEN /\ tri.tag = "some"
             /\ tri.left = IF m.base = s.base THEN <<>>
                           ELSE <<[base |-> s.base,
                                   size |-> m.base - s.base]>>
             /\ tri.right = IF TrueLastByte(m) = TrueLastByte(s) THEN <<>>
                            ELSE <<[base |-> TrueLastByte(m) + 1,
                                    size |-> TrueLastByte(s)
                                                 - TrueLastByte(m)]>>
        ELSE tri.tag = "none"

\* Free region i of the list the last alloc found is the one it took: it
\* starts at the returned base, and the free list is left without it, with
\* the rump appended when the region was larger than the granted size s.
AllocChose(i, s) ==
    LET F == pre_unused[i] IN
    /\ F.base = last.ret
    /\ unused_chunks =
           IF F.size > s
           THEN Append(RemoveAt(pre_unused, i),
                       [base |-> (F.base + s) % AddrSpace,
                        size |-> F.size - s])
           ELSE RemoveAt(pre_unused, i)

\* C20: alloc's choice of free region: if some free region has exactly the
\* granted size, a region of exactly that size is chosen, even when a larger
\* one was met earlier in the scan; otherwise the chosen region has the
\* smallest size among the free regions strictly larger than the granted
\* size.
AllocSelectsExactElseTightestFit ==
    (last.op = "alloc" /\ ~fatal) =>
        LET s == heap_used_chunks[last.ret].size IN
        \E i \in DOMAIN pre_unused :
            /\ AllocChose(i, s)
            /\ IF \E j \in DOMAIN pre_unused : pre_unused[j].size = s
               THEN pre_unused[i].size = s
               ELSE /\ pre_unused[i].size > s
                    /\ \A j \in DOMAIN pre_unused :
                           pre_unused[j].size > s
                               => pre_unused[i].size <= pre_unused[j].size

\* An exact fit was taken although a larger region stood later in the free
\* list, where the reverse scan met it first.
ExactFitAfterLargerSeen ==
    /\ last.op = "alloc" /\ ~fatal
    /\ \E i \in DOMAIN pre_unused : \E j \in DOMAIN pre_unused :
          /\ i < j
          /\ pre_unused[j].size > pre_unused[i].size
          /\ pre_unused[i].size = heap_used_chunks[last.ret].size
          /\ AllocChose(i, pre_unused[i].size)

\* Indices of `added` whose chunk has size s.
ExactFits(s) == { i \in DOMAIN added : added[i].size = s }

\* C21: alloc scans the free set most recently added first: when several
\* free regions have exactly the granted size, the one added to the free set
\* most recently is the one chosen.
AllocTakesNewestExactFit ==
    [][(last'.op = "alloc" /\ ~fatal')
       => LET s == heap_used_chunks'[last'.ret].size
              fits == ExactFits(s)
          IN Cardinality(fits) >= 2
                 => \E n \in fits :
                        /\ \A i \in fits : i <= n
                        /\ last'.ret = added[n].base]_vars

\* The region the last free gave back, and the free regions that touched it
\* on its left and on its right when free was called.
Freed == [base |-> last.base, size |-> last.ret]
LeftNeighbours ==
    { i \in DOMAIN pre_unused :
          pre_unused[i].base + pre_unused[i].size = Freed.base }
RightNeighbours ==
    { i \in DOMAIN pre_unused :
          Freed.base + Freed.size = pre_unused[i].base }
FreeBetweenTwoFreeRegions ==
    /\ last.op = "free" /\ ~fatal
    /\ LeftNeighbours # {} /\ RightNeighbours # {}

\* C22: a successful free merges the freed region with at most one adjacent
\* free region: the free list keeps its length (one merge) or grows by one
\* (no merge); with free regions on both sides exactly one side is merged
\* and the other stays a separate free region that touches the merged one.
\* Sizes are u32: the merged size is the u32 sum.
FreeMergesAtMostOneNeighbour ==
    /\ (last.op = "free" /\ ~fatal)
           => \/ Len(unused_chunks) = Len(pre_unused)
              \/ Len(unused_chunks) = Len(pre_unused) + 1
    /\ FreeBetweenTwoFreeRegions
           => /\ Len(unused_chunks) = Len(pre_unused)
              /\ \E l \in LeftNeighbours : \E r \in RightNeighbours :
                    LET L == pre_unused[l]
                        R == pre_unused[r]
                    IN \/ /\ InFreeList(unused_chunks,
                                 [base |-> L.base,
                                  size |-> Wrap(L.size + Freed.size)])
                          /\ InFreeList(unused_chunks, R)
                       \/ /\ InFreeList(unused_chunks,
                                 [base |-> Freed.base,
                                  size |-> Wrap(Freed.size + R.size)])
                          /\ InFreeList(unused_chunks, L)

FreeBetweenTwoFreeRegionsSeen ==
    /\ FreeBetweenTwoFreeRegions
    /\ FromAlloc(last.base)
    /\ Len(unused_chunks) = Len(pre_unused)

\* The free regions that try_combine_with_neighbour may take for the chunk
\* it was given: those that start at the byte after the chunk's last one
\* and, when allow_left_grow is set, those that end at the byte before the
\* chunk's base.
CombineCandidates ==
    { i \in DOMAIN pre_unused :
          \/ pre_unused[i].base = TrueLastByte(comb.chunk) + 1
          \/ /\ comb.allow_left_grow
             /\ TrueLastByte(pre_unused[i]) = comb.chunk.base - 1 }

\* The free list is what it was, less one entry equal to chunk c.
FreeListLost(c) ==
    /\ Len(unused_chunks) = Len(pre_unused) - 1
    /\ \A i \in DOMAIN pre_unused :
          Occurrences(unused_chunks, Len(unused_chunks), pre_unused[i])
              = Occurrences(pre_unused, Len(pre_unused), pre_unused[i])
                    - (IF pre_unused[i] = c THEN 1 ELSE 0)

\* C23: try_combine_with_neighbour(region, allow_left_grow): if the free
\* list holds a region starting at region.last_byte + 1 or, only when
\* allow_left_grow is true, one whose last byte is region.base - 1, exactly
\* one such neighbour is removed from the free list and the result is
\* (region spanning both, true), with the lower base and the sum of the
\* sizes; otherwise the result is (region unchanged, false) and the free
\* list is unchanged.  With allow_left_grow false the returned region has
\* the base of the input.
TryCombineContract ==
    last.op = "try_combine_with_neighbour" =>
        /\ ~fatal
        /\ IF CombineCandidates # {}
           THEN \E i \in CombineCandidates :
                    /\ FreeListLost(pre_unused[i])
                    /\ comb.combined
                    /\ comb.result =
                           [base |-> Min(comb.chunk.base, pre_unused[i].base),
                            size |-> comb.chunk.size + pre_unused[i].size]
           ELSE /\ unused_chunks = pre_unused
                /\ ~comb.combined
                /\ comb.result = comb.chunk
        /\ ~comb.allow_left_grow => comb.result.base = comb.chunk.base

\* C24: no region in the free list or in the used map has a last byte,
\* base + size - 1, beyond the address width.
NoTrackedRegionWraps ==
    /\ \A i \in DOMAIN unused_chunks :
          TrueLastByte(unused_chunks[i]) < AddrSpace
    /\ \A b \in DOMAIN heap_used_chunks :
          TrueLastByte(heap_used_chunks[b]) < AddrSpace

\* C25: a successful alloc(n) lowers the sum of the free sizes by exactly
\* align_size(n), a successful free raises it by exactly the size it
\* returns, and an alloc followed at once by free of the returned base leaves
\* the sum as it was before the alloc.
FreeCapacityAccountedExactly ==
    /\ (last.op = "alloc" /\ ~fatal)
           => Capacity(unused_chunks)
                  = Capacity(pre_unused) - GrantedSizeFor(last.size)
    /\ (last.op = "free" /\ ~fatal)
           => Capacity(unused_chunks) = Capacity(pre_unused) + last.ret
    /\ (/\ prev.op = "alloc" /\ last.op = "free" /\ ~fatal
        /\ last.base = prev.ret)
           => Capacity(unused_chunks) = Capacity(prev_unused)

\* C26: find_allocated_chunk is a read-only lookup: whether it succeeds or
\* fails, the free list (contents and order) and the used map are as they
\* were before the call.
FindChangesNothing ==
    last.op = "find_allocated_chunk" =>
        /\ unused_chunks = pre_unused
        /\ heap_used_chunks = pre_used

FindOfLiveAllocationSeen ==
    /\ last.op = "find_allocated_chunk" /\ ~fatal
    /\ FromAlloc(last.base)
    /\ last.rbase = last.base
    /\ last.base \in DOMAIN heap_used_chunks
    /\ Len(unused_chunks) >= 2

\* C27: when free(base) finds free regions touching the freed region on both
\* its left and its right, the neighbour it merges is the one at the lowest
\* index of the free list, whichever side that one is on.  Sizes are u32.
FirstListedNeighbour ==
    CHOOSE i \in LeftNeighbours \cup RightNeighbours :
        \A j \in LeftNeighbours \cup RightNeighbours : i <= j
FreeMergesFirstListedNeighbour ==
    FreeBetweenTwoFreeRegions =>
        LET N == pre_unused[FirstListedNeighbour] IN
        InFreeList(unused_chunks,
                   [base |-> Min(Freed.base, N.base),
                    size |-> Wrap(Freed.size + N.size)])

\* The first listed neighbour was the one on the right, the higher side,
\* and it was merged while the left one stayed.
RightNeighbourListedFirstSeen ==
    /\ FreeBetweenTwoFreeRegions /\ FromAlloc(last.base)
    /\ FirstListedNeighbour \in RightNeighbours
    /\ \E l \in LeftNeighbours : InFreeList(unused_chunks, pre_unused[l])
    /\ InFreeList(unused_chunks,
                  [base |-> Freed.base,
                   size |-> Freed.size
                                + pre_unused[FirstListedNeighbour].size])

\* The free list the last call found held two entries that touch, one
\* ending where the other begins, whose sizes together reach n, while no
\* single entry reached n.
OnlyAdjacentPairFits(n) ==
    /\ \A i \in DOMAIN pre_unused : pre_unused[i].size < n
    /\ \E i \in DOMAIN pre_unused : \E j \in DOMAIN pre_unused :
          /\ i # j
          /\ pre_unused[i].base + pre_unused[i].size = pre_unused[j].base
          /\ pre_unused[i].size + pre_unused[j].size >= n

\* C28: where two free-list entries are address-adjacent and unmerged, an
\* alloc of a size larger than every single free region fails fatally, even
\* though the two adjacent regions together are large enough for it; such a
\* state is reached by alloc of three adjacent regions A, B, C, then free A,
\* free C, free B.
AllocFailsAcrossUnmergedNeighbours ==
    (last.op = "alloc" /\ OnlyAdjacentPairFits(GrantedSizeFor(last.size)))
        => /\ fatal
           /\ heap_used_chunks = pre_used

\* After alloc A, B, C and free A, C, B, with nothing else freed: AB and the
\* rest of the heap are adjacent free entries, and the alloc failed.
AllocFailedAcrossUnmergedNeighboursSeen ==
    /\ last.op = "alloc" /\ fatal /\ ~foreign_free
    /\ prev.op = "free" /\ FromAlloc(prev.base)
    /\ OnlyAdjacentPairFits(GrantedSizeFor(last.size))
    /\ nOps = 7 /\ Cardinality(DOMAIN handed) = 3
    /\ prev.base = NULL_PAGE_SIZE + ALIGNMENT
    /\ Len(pre_unused) = 2
    /\ pre_unused[2] = [base |-> NULL_PAGE_SIZE, size |-> 2 * ALIGNMENT]
    /\ pre_unused[1].base = NULL_PAGE_SIZE + 2 * ALIGNMENT
    /\ DOMAIN pre_used = {0, MAIN_THREAD_STACK_LOW_END}

Aligned(n) == n % 16 = 0

\* C29: in runs of alloc and free alone on a new allocator, every base that
\* alloc returns is a multiple of 16, and every region in the free list and
\* in the used map has a base and a size that are multiples of 16.
AllocFreeKeepSixteenByteAlignment ==
    /\ (last.op = "alloc" /\ ~fatal) => Aligned(last.ret)
    /\ \A i \in DOMAIN unused_chunks :
          Aligned(unused_chunks[i].base) /\ Aligned(unused_chunks[i].size)
    /\ \A b \in DOMAIN heap_used_chunks :
          /\ Aligned(heap_used_chunks[b].base)
          /\ Aligned(heap_used_chunks[b].size)

\* A request that is no multiple of 16 was served from a region split off
\* earlier and put back by free.
UnalignedRequestServedSeen ==
    /\ last.op = "alloc" /\ ~fatal /\ ~Aligned(last.size)
    /\ prev.op = "free" /\ FromAlloc(prev.base)
    /\ Aligned(last.ret) /\ last.ret > NULL_PAGE_SIZE
    /\ Len(unused_chunks) >= 2

\* Indices of the free list the last alloc found whose region has the
\* smallest size strictly larger than s.
TightestLarger(s) ==
    LET larger == { j \in DOMAIN pre_unused : pre_unused[j].size > s } IN
    { j \in larger :
        \A k \in larger : pre_unused[j].size <= pre_unused[k].size }

\* The last alloc found no exact fit, and several free regions tied for the
\* smallest size strictly larger than the granted size s.
TiedWithoutExactFit(s) ==
    /\ \A j \in DOMAIN pre_unused : pre_unused[j].size # s
    /\ Cardinality(TightestLarger(s)) >= 2

\* C30: when alloc finds no exact fit and several free regions tie for the
\* smallest size strictly larger than the granted size, the tied region at
\* the highest free-list index, the first one the reverse scan meets, is
\* the one chosen.
AllocTakesHighestIndexOfTie ==
    (last.op = "alloc" /\ ~fatal) =>
        LET s == heap_used_chunks[last.ret].size IN
        TiedWithoutExactFit(s) =>
            LET top == CHOOSE i \in TightestLarger(s) :
                           \A j \in TightestLarger(s) : j <= i
            IN AllocChose(top, s)

\* An alloc was served from one of two distinct free regions of equal size,
\* each larger than the granted size, with no exact fit in the free list.
TieBrokenSeen ==
    /\ last.op = "alloc" /\ ~fatal
    /\ last.ret \in DOMAIN heap_used_chunks
    /\ TiedWithoutExactFit(heap_used_chunks[last.ret].size)
    /\ \E i \in TightestLarger(heap_used_chunks[last.ret].size) :
       \E j \in TightestLarger(heap_used_chunks[last.ret].size) :
          pre_unused[i].base # pre_unused[j].base

====
